---- MODULE Spec2Model ----
(***************************************************************************)
(* Model of main.py of bricklink-manager: the inventory parser             *)
(* (parse_xml_inventory), the price client's result shapes                 *)
(* (BricklinkAPI.get_item_price), the pricing pipeline                     *)
(* (get_prices_for_inventory), the exporters and the entry point (main).   *)
(*                                                                         *)
(* Text is modelled as a sequence of one-character strings, so that the    *)
(* f-string key of the pipeline, int() and float() are computed from the   *)
(* characters.  An XML child element is <<"absent">> (find() returns None),*)
(* <<"elem">> (present, .text is None) or <<"elem", text>>.                *)
(***************************************************************************)
EXTENDS Integers, Sequences, FiniteSets, TLC

VARIABLES pc, doc, args, items, creds, idx, processed_items, results,
          origin, log, summary, files

vars == <<pc, doc, args, items, creds, idx, processed_items, results,
          origin, log, summary, files>>

-----------------------------------------------------------------------------
(* Bounds of the model *)

MaxDocLen == 2

MaxItems == 2

MaxResults == 2

-----------------------------------------------------------------------------
(* Text helpers *)

None == <<"None">>

Absent == <<"absent">>

NoText == <<"elem">>

Elem(t) == <<"elem", t>>

Found(e) == e # Absent

Text(e) == IF Len(e) = 2 THEN e[2] ELSE None

Digits == {"0", "1", "2", "3", "4", "5", "6", "7", "8", "9"}

DigitVal(c) == CASE c = "0" -> 0 [] c = "1" -> 1 [] c = "2" -> 2 [] c = "3" -> 3
                 [] c = "4" -> 4 [] c = "5" -> 5 [] c = "6" -> 6 [] c = "7" -> 7
                 [] c = "8" -> 8 [] c = "9" -> 9

DigitChar(n) == CASE n = 0 -> "0" [] n = 1 -> "1" [] n = 2 -> "2" [] n = 3 -> "3"
                  [] n = 4 -> "4" [] n = 5 -> "5" [] n = 6 -> "6" [] n = 7 -> "7"
                  [] n = 8 -> "8" [] n = 9 -> "9"

\* str.isdigit(): non-empty and every character a digit
isdigit(t) == Len(t) > 0 /\ \A k \in 1..Len(t) : t[k] \in Digits

RECURSIVE int(_)
\* int() of a string of decimal digits
int(t) == IF Len(t) = 0 THEN 0
          ELSE 10 * int(SubSeq(t, 1, Len(t) - 1)) + DigitVal(t[Len(t)])

RECURSIVE str(_)
\* str() of a natural number
str(n) == IF n < 10 THEN <<DigitChar(n)>> ELSE str(n \div 10) \o <<DigitChar(n % 10)>>

-----------------------------------------------------------------------------
(* Module constants *)

ITEM_TYPE_MAP == (<<"M">> :> "MINIFIG") @@ (<<"P">> :> "PART") @@ (<<"S">> :> "SET")

-----------------------------------------------------------------------------
(* parse_xml_inventory *)

\* the test of line 185-186: a supported type code and a non-empty identifier
EntryAccepted(e) ==
    /\ Found(e.ITEMTYPE)
    /\ Text(e.ITEMTYPE) \in DOMAIN ITEM_TYPE_MAP
    /\ Found(e.ITEMID)
    /\ Text(e.ITEMID) # None

\* qty.text.isdigit() on a QTY element without text raises AttributeError
QtyRaises(e) == Found(e.QTY) /\ Text(e.QTY) = None

\* the dictionary appended at lines 188-194
LineItem(e) ==
    [itemid    |-> Text(e.ITEMID),
     itemtype  |-> Text(e.ITEMTYPE),
     color     |-> IF Found(e.COLOR) THEN Text(e.COLOR) ELSE <<"0">>,
     quantity  |-> IF Found(e.QTY) /\ isdigit(Text(e.QTY)) THEN int(Text(e.QTY)) ELSE 1,
     condition |-> IF Found(e.CONDITION) THEN Text(e.CONDITION) ELSE <<"U">>]

RECURSIVE ParseLoop(_, _, _)
\* the for loop of lines 178-194; an exception leaves the loop
ParseLoop(entries, k, acc) ==
    IF k > Len(entries) THEN [raised |-> FALSE, items |-> acc]
    ELSE IF ~EntryAccepted(entries[k]) THEN ParseLoop(entries, k + 1, acc)
    ELSE IF QtyRaises(entries[k]) THEN [raised |-> TRUE, items |-> acc]
    ELSE ParseLoop(entries, k + 1, Append(acc, LineItem(entries[k])))

\* the whole function: every exception is caught and gives the empty list
parse_xml_inventory(d) ==
    IF d.status # "ok" THEN <<>>
    ELSE LET r == ParseLoop(d.entries, 1, <<>>)
         IN  IF r.raised THEN <<>> ELSE r.items

-----------------------------------------------------------------------------
(* BricklinkAPI *)

\* all([...]) of line 57: every credential is set and non-empty
Truthy(t) == t # None /\ Len(t) > 0

\* mutant: any() in place of all()
CredentialsPresent_any(c) == \E k \in 1..4 : Truthy(c[k])

CredentialsPresent(c) == \A k \in 1..4 : Truthy(c[k])

\* .get(key) of a dictionary, with a default
Get(d, key, default) == IF key \in DOMAIN d THEN d[key] ELSE default

\* the dictionary returned at lines 119-125
SuccessResult(item_id, item_type, condition, data) ==
    [success |-> TRUE, itemid |-> item_id, item_type |-> item_type,
     condition |-> condition, data |-> data]

\* the dictionary returned at lines 131-137 and 153-159: it has no condition
FailureResult(item_id, item_type, error, status_code) ==
    [success |-> FALSE, itemid |-> item_id, item_type |-> item_type,
     error |-> error, status_code |-> status_code]

\* get_item_price, given what the HTTP round trip produced:
\*   [kind |-> "json", status, code, message, description, data]   a decoded body
\*   [kind |-> "exception", message]                               session.get or json() raised
get_item_price(item_id, item_type, condition, resp) ==
    IF resp.kind = "json"
    THEN IF resp.code = 200
         THEN SuccessResult(item_id, item_type, condition, resp.data)
         ELSE FailureResult(item_id, item_type,
                            <<resp.message>> \o
                              (IF resp.description # "" THEN <<" - ", resp.description>> ELSE <<>>),
                            resp.status)
    ELSE FailureResult(item_id, item_type, <<resp.message>>, None)

-----------------------------------------------------------------------------
(* get_prices_for_inventory *)

\* mutant: the quantity is part of the key
unique_key_with_quantity(item) ==
    item.itemid \o <<"_">> \o item.itemtype \o <<"_">> \o item.condition
        \o <<"_">> \o str(item.quantity)

\* mutant: the condition is left out of the key
unique_key_without_condition(item) == item.itemid \o <<"_">> \o item.itemtype

\* line 258: f"{itemid}_{itemtype}_{condition}"
unique_key(item) == item.itemid \o <<"_">> \o item.itemtype \o <<"_">> \o item.condition

\* line 255: the condition filter skips the line item
FilteredOut(condition_filter, item) ==
    condition_filter # None /\ item.condition # condition_filter

\* truthiness of data.get('avg_price')
HasAvgPrice(data) == Truthy(Get(data, "avg_price", None))

\* mutant: the quantity is not attached
WithQuantity_dropped(result, quantity) == result

\* result['quantity'] = quantity (line 266)
WithQuantity(result, quantity) ==
    [k \in DOMAIN result \cup {"quantity"} |->
        IF k = "quantity" THEN quantity ELSE result[k]]

\* line 269: the used lookup succeeded without an average price
NeedsFallback(condition, result) ==
    condition = <<"U">> /\ result.success /\ ~HasAvgPrice(result.data)

\* mutant: the new-condition result replaces the whole result
ApplyFallback_whole(result, new_result) ==
    IF new_result.success /\ HasAvgPrice(new_result.data)
    THEN [k \in DOMAIN new_result \cup {"quantity"} |->
             IF k = "quantity" THEN result.quantity ELSE new_result[k]]
    ELSE result

\* lines 272-273: the new-condition payload replaces the used one
ApplyFallback(result, new_result) ==
    IF new_result.success /\ HasAvgPrice(new_result.data)
    THEN [result EXCEPT !.data = new_result.data]
    ELSE result

CallEvent(by, item_id, item_type, condition, resp, fallback) ==
    [op |-> "get_item_price", by |-> by, itemid |-> item_id, item_type |-> item_type,
     condition |-> condition, response |-> resp, fallback |-> fallback]

SleepEvent(by) == [op |-> "sleep", by |-> by]

\* lines 278-279: time.sleep(0.1) after the result of a key is appended
AfterKey(by) == <<SleepEvent(by)>>

\* mutant: the pause is taken at the top of the loop body, for every line item
AfterSkip_pause(by) == <<SleepEvent(by)>>

\* lines 256 and 260: continue, which leaves the body before the pause
AfterSkip(by) == <<>>

-----------------------------------------------------------------------------
(* Numbers: float() of a decimal string and the formats of the exporters.  *)
(* A price is held in ten-thousandths of a dollar.                         *)

DotPos(t) == IF \E k \in 1..Len(t) : t[k] = "."
             THEN CHOOSE k \in 1..Len(t) : t[k] = "." /\ \A j \in 1..(k - 1) : t[j] # "."
             ELSE 0

IntPart(t) == IF DotPos(t) = 0 THEN t ELSE SubSeq(t, 1, DotPos(t) - 1)

FracPart(t) == IF DotPos(t) = 0 THEN <<>> ELSE SubSeq(t, DotPos(t) + 1, Len(t))

\* the strings float() accepts, as far as the model goes: digits with at most
\* one point and at most four decimals
IsDecimal(t) ==
    /\ Len(IntPart(t)) + Len(FracPart(t)) > 0
    /\ \A k \in 1..Len(IntPart(t)) : IntPart(t)[k] \in Digits
    /\ \A k \in 1..Len(FracPart(t)) : FracPart(t)[k] \in Digits
    /\ Len(FracPart(t)) <= 4

PadRight(t, n) == t \o [k \in 1..(n - Len(t)) |-> "0"]

\* float(avg_price), in ten-thousandths
float(t) == int(IntPart(t)) * 10000 + int(PadRight(FracPart(t), 4))

\* f"{x:.2f}" of x = q / 1000000 dollars.  The product is a binary float: off an
\* exact half cent it rounds to the nearest cent, on one the side depends on the
\* representation error, here the flag up.
RoundCents(q, up) ==
    IF q % 10000 < 5000 THEN q \div 10000
    ELSE IF q % 10000 > 5000 THEN q \div 10000 + 1
    ELSE IF up THEN q \div 10000 + 1 ELSE q \div 10000

Format2f(q, up) ==
    LET c == RoundCents(q, up)
    IN  str(c \div 100) \o <<".">> \o <<DigitChar((c % 100) \div 10), DigitChar(c % 10)>>

-----------------------------------------------------------------------------
(* print_price_summary *)

RECURSIVE SumValue(_, _)
\* lines 311-316: the running total over the successful results
SumValue(rs, k) ==
    IF k > Len(rs) THEN 0
    ELSE LET r == rs[k]
             avg == IF r.success THEN Get(r.data, "avg_price", None) ELSE None
         IN  (IF r.success /\ Truthy(avg) /\ IsDecimal(avg)
              THEN float(avg) * Get(r, "quantity", 1) ELSE 0) + SumValue(rs, k + 1)

print_price_summary(rs) ==
    [printed    |-> TRUE,
     successful |-> Cardinality({k \in 1..Len(rs) : rs[k].success}),
     failed     |-> Cardinality({k \in 1..Len(rs) : ~rs[k].success}),
     total      |-> SumValue(rs, 1)]

-----------------------------------------------------------------------------
(* create_bricklink_upload_xml *)

\* mutant: the cents are cut off, not rounded
PriceValue_truncated(result, markup_percent, up) ==
    IF result.success /\ HasAvgPrice(result.data)
    THEN LET q == float(result.data.avg_price) * (100 + markup_percent)
         IN  Format2f(q - (q % 10000), up)
    ELSE <<"0", ".", "0", "0">>

\* lines 351-360: markup is a whole percentage
PriceValue(result, markup_percent, up) ==
    IF result.success
    THEN IF HasAvgPrice(result.data)
         THEN Format2f(float(result.data.avg_price) * (100 + markup_percent), up)
         ELSE <<"0", ".", "0", "0">>
    ELSE <<"0", ".", "0", "0">>

\* line 379: {v: k for k, v in ITEM_TYPE_MAP.items()}.get(api_type, 'M')
XmlType(api_type) ==
    IF \E k \in DOMAIN ITEM_TYPE_MAP : ITEM_TYPE_MAP[k] = api_type
    THEN CHOOSE k \in DOMAIN ITEM_TYPE_MAP : ITEM_TYPE_MAP[k] = api_type
    ELSE <<"M">>

\* lines 342-386: one ITEM, its children in the order they are written
UploadItem(result, markup_percent, up) ==
    << <<"CATEGORY", <<>>>>,
       <<"COLOR", <<"0">>>>,
       <<"PRICE", PriceValue(result, markup_percent, up)>>,
       <<"QTY", str(Get(result, "quantity", 1))>>,
       <<"BULK", <<"1">>>>,
       <<"DESCRIPTION", <<>>>>,
       <<"CONDITION", Get(result, "condition", <<"U">>)>>,
       <<"ITEMTYPE", XmlType(Get(result, "item_type", "MINIFIG"))>>,
       <<"ITEMID", result.itemid>> >>

\* the document: the ITEMs in result order; ties[k] is the rounding side of result k
create_bricklink_upload_xml(rs, markup_percent, ties) ==
    [k \in 1..Len(rs) |-> UploadItem(rs[k], markup_percent, ties[k])]

-----------------------------------------------------------------------------
(* create_simplified_json *)

Number(n) == <<"number", n>>

\* mutant: the average price is exported as the string it came as
SimplifiedEntry_string_price(result) ==
    [item_id       |-> result.itemid,
     item_type     |-> Get(result, "item_type", "MINIFIG"),
     amount        |-> Get(result, "quantity", 1),
     average_price |-> IF result.success /\ HasAvgPrice(result.data)
                       THEN result.data.avg_price ELSE None,
     condition     |-> Get(result, "condition", <<"U">>),
     error         |-> Get(result, "error", None)]

\* lines 406-425
SimplifiedEntry(result) ==
    IF result.success
    THEN [item_id       |-> result.itemid,
          item_type     |-> Get(result, "item_type", "MINIFIG"),
          amount        |-> Get(result, "quantity", 1),
          average_price |-> IF HasAvgPrice(result.data)
                            THEN Number(float(result.data.avg_price)) ELSE None,
          condition     |-> result.condition]
    ELSE [item_id       |-> result.itemid,
          item_type     |-> Get(result, "item_type", "MINIFIG"),
          amount        |-> Get(result, "quantity", 1),
          average_price |-> None,
          condition     |-> Get(result, "condition", <<"U">>),
          error         |-> Get(result, "error", None)]

create_simplified_json(rs) == [k \in 1..Len(rs) |-> SimplifiedEntry(rs[k])]

-----------------------------------------------------------------------------
(* Inputs: documents, command-line options, credentials, HTTP outcomes *)

SeqsUpTo(S, n) == UNION {[1..k -> S] : k \in 0..n}

ParseEntries ==
    [ITEMTYPE  : {Absent, Elem(<<"M">>), Elem(<<"S">>), Elem(<<"X">>)},
     ITEMID    : {Absent, NoText, Elem(<<"a">>)},
     COLOR     : {Absent},
     QTY       : {Absent, NoText, Elem(<<"x">>), Elem(<<"0">>), Elem(<<"1", "2">>)},
     CONDITION : {Absent, Elem(<<"N">>)}]

ParseDocs ==
    {[status |-> "ok", entries |-> es] : es \in SeqsUpTo(ParseEntries, MaxDocLen)}
    \cup {[status |-> "missing", entries |-> <<>>],
          [status |-> "malformed", entries |-> <<>>]}

\* the documents of a whole run: accepted entries over two types, two
\* quantities and both conditions
MainEntries ==
    [ITEMTYPE  : {Elem(<<"M">>), Elem(<<"P">>)},
     ITEMID    : {Elem(<<"a">>)},
     COLOR     : {Absent},
     QTY       : {Absent, Elem(<<"2">>)},
     CONDITION : {Absent, Elem(<<"N">>)}]

MainDocs ==
    {[status |-> "ok", entries |-> es] : es \in SeqsUpTo(MainEntries, MaxItems)}
    \cup {[status |-> "missing", entries |-> <<>>]}

MainArgs ==
    [condition : {None, <<"N">>, <<"U">>},
     export    : {None, <<"p">>},
     markup    : {10},
     setup     : BOOLEAN]

NoArgs == [condition |-> None, export |-> None, markup |-> 10, setup |-> FALSE]

NoCreds == <<None, None, None, None>>

CredValues == {None, <<>>, <<"k">>}

Credentials == [1..4 -> CredValues]

JsonOk(data) ==
    [kind |-> "json", status |-> 200, code |-> 200, message |-> "OK",
     description |-> "", data |-> data]

JsonError(code, message, description) ==
    [kind |-> "json", status |-> code, code |-> code, message |-> message,
     description |-> description]

Raised(message) == [kind |-> "exception", message |-> message]

\* payloads: no avg_price key, an empty avg_price, a quoted average
Payloads ==
    {[min_price |-> <<"1", ".", "0", "0">>],
     [min_price |-> <<"1", ".", "0", "0">>, avg_price |-> <<>>],
     [min_price |-> <<"1", ".", "0", "0">>, avg_price |-> <<"1", "0", ".", "0", "0">>]}

Responses ==
    {JsonOk(d) : d \in Payloads}
    \cup {JsonError(404, "PARAMETER_MISSING_OR_INVALID", "no item")}

NoSummary == [printed |-> FALSE, successful |-> 0, failed |-> 0, total |-> 0]

NoFiles == [names |-> <<>>, xml |-> <<>>, json |-> <<>>, detailed |-> <<>>]

-----------------------------------------------------------------------------
(* main, step by step *)

\* lines 480-482: --setup prints the instructions and returns
Start ==
    /\ pc = "start"
    /\ pc' = IF args.setup THEN "done" ELSE "parse"
    /\ UNCHANGED <<doc, args, items, creds, idx, processed_items, results,
                   origin, log, summary, files>>

\* line 496: items = parse_xml_inventory(args.xml)
Parse ==
    /\ pc = "parse"
    /\ items' = parse_xml_inventory(doc)
    /\ pc' = "parsed"
    /\ UNCHANGED <<doc, args, creds, idx, processed_items, results, origin,
                   log, summary, files>>

\* lines 498-500: nothing to price
CheckItems ==
    /\ pc = "parsed"
    /\ pc' = IF items = <<>> THEN "done" ELSE "api"
    /\ UNCHANGED <<doc, args, items, creds, idx, processed_items, results,
                   origin, log, summary, files>>

\* lines 519-533: BricklinkAPI() reads the four credentials from the
\* environment and raises ValueError unless all are present
Construct ==
    /\ pc = "api"
    /\ \E c \in Credentials :
          /\ creds' = c
          /\ pc' = IF CredentialsPresent(c) THEN "pipeline" ELSE "done"
    /\ UNCHANGED <<doc, args, items, idx, processed_items, results, origin,
                   log, summary, files>>

\* one iteration of the for loop of get_prices_for_inventory (lines 248-279)
PipelineStep ==
    /\ pc = "pipeline"
    /\ idx <= Len(items)
    /\ LET item == items[idx]
           api_type == ITEM_TYPE_MAP[item.itemtype]
       IN  IF FilteredOut(args.condition, item) \/ unique_key(item) \in processed_items
           THEN /\ log' = log \o AfterSkip(idx)
                /\ UNCHANGED <<processed_items, results, origin>>
           ELSE \E resp \in Responses :
                  LET result == WithQuantity(
                                   get_item_price(item.itemid, api_type, item.condition, resp),
                                   item.quantity)
                      call == CallEvent(idx, item.itemid, api_type, item.condition, resp, FALSE)
                  IN  /\ processed_items' = processed_items \cup {unique_key(item)}
                      /\ origin' = Append(origin, idx)
                      /\ IF NeedsFallback(item.condition, result)
                         THEN \E new_resp \in Responses :
                                LET new_result == get_item_price(item.itemid, api_type,
                                                                 <<"N">>, new_resp)
                                    new_call == CallEvent(idx, item.itemid, api_type,
                                                          <<"N">>, new_resp, TRUE)
                                IN  /\ results' = Append(results, ApplyFallback(result, new_result))
                                    /\ log' = log \o <<call, new_call>> \o AfterKey(idx)
                         ELSE /\ results' = Append(results, result)
                              /\ log' = log \o <<call>> \o AfterKey(idx)
    /\ idx' = idx + 1
    /\ UNCHANGED <<pc, doc, args, items, creds, summary, files>>

\* lines 281 and 537-539: the loop is over; main stops on an empty result list
PipelineReturn ==
    /\ pc = "pipeline"
    /\ idx > Len(items)
    /\ pc' = IF results = <<>> THEN "done" ELSE "summary"
    /\ UNCHANGED <<doc, args, items, creds, idx, processed_items, results,
                   origin, log, summary, files>>

\* line 541
Summary ==
    /\ pc = "summary"
    /\ summary' = print_price_summary(results)
    /\ pc' = IF args.export # None THEN "export" ELSE "done"
    /\ UNCHANGED <<doc, args, items, creds, idx, processed_items, results,
                   origin, log, files>>

\* lines 543-566: the three export files
Export ==
    /\ pc = "export"
    /\ \E ties \in [1..Len(results) -> BOOLEAN] :
          files' = [names    |-> <<"xml", "json", "detailed">>,
                    xml      |-> create_bricklink_upload_xml(results, args.markup, ties),
                    json     |-> create_simplified_json(results),
                    detailed |-> results]
    /\ pc' = "done"
    /\ UNCHANGED <<doc, args, items, creds, idx, processed_items, results,
                   origin, log, summary>>

Init ==
    /\ pc = "start"
    /\ doc \in MainDocs
    /\ args \in MainArgs
    /\ items = <<>>
    /\ creds = NoCreds
    /\ idx = 1
    /\ processed_items = {}
    /\ results = <<>>
    /\ origin = <<>>
    /\ log = <<>>
    /\ summary = NoSummary
    /\ files = NoFiles

Next ==
    \/ Start
    \/ Parse
    \/ CheckItems
    \/ Construct
    \/ PipelineStep
    \/ PipelineReturn
    \/ Summary
    \/ Export

Spec == Init /\ [][Next]_vars

\* the parser alone, over documents with missing, empty and unsupported fields
InitParse ==
    /\ pc = "parse"
    /\ doc \in ParseDocs
    /\ args = NoArgs
    /\ items = <<>>
    /\ creds = NoCreds
    /\ idx = 1
    /\ processed_items = {}
    /\ results = <<>>
    /\ origin = <<>>
    /\ log = <<>>
    /\ summary = NoSummary
    /\ files = NoFiles

SpecParse == InitParse /\ [][Parse]_vars

\* the exporters alone, over result lists of every shape get_item_price and
\* the pipeline produce
ExportPayloads ==
    {[min_price |-> <<"1", ".", "0", "0">>],
     [min_price |-> <<"1", ".", "0", "0">>, avg_price |-> <<>>],
     [min_price |-> <<"1", ".", "0", "0">>, avg_price |-> <<"1", "0", ".", "0", "0">>],
     [min_price |-> <<"1", ".", "0", "0">>, avg_price |-> <<"2", "3", ".", "5", "0">>],
     [min_price |-> <<"1", ".", "0", "0">>, avg_price |-> <<"1", ".", "9", "9", "0", "0">>]}

ExportResponses ==
    {JsonOk(d) : d \in ExportPayloads}
    \cup {JsonError(404, "PARAMETER_MISSING_OR_INVALID", ""), Raised("timed out")}

ExportResults ==
    {WithQuantity(get_item_price(<<"a">>, t, c, resp), q) :
        t \in {"MINIFIG", "SET"}, c \in {<<"N">>, <<"U">>},
        resp \in ExportResponses, q \in {1, 3}}

ExportArgs ==
    [condition : {None}, export : {<<"p">>}, markup : {10, 15}, setup : {FALSE}]

InitExport ==
    /\ pc = "export"
    /\ doc = [status |-> "ok", entries |-> <<>>]
    /\ args \in ExportArgs
    /\ items = <<>>
    /\ creds = NoCreds
    /\ idx = 1
    /\ processed_items = {}
    /\ results \in SeqsUpTo(ExportResults, MaxResults)
    /\ origin = <<>>
    /\ log = <<>>
    /\ summary = NoSummary
    /\ files = NoFiles

SpecExport == InitExport /\ [][Export]_vars

-----------------------------------------------------------------------------
(* Properties of get_prices_for_inventory *)

IsCall(e) == e.op = "get_item_price"

CallIndexes == {a \in 1..Len(log) : IsCall(log[a])}

SameTriple(e, f) ==
    e.itemid = f.itemid /\ e.item_type = f.item_type /\ e.condition = f.condition

SameItemKey(x, y) ==
    x.itemid = y.itemid /\ x.itemtype = y.itemtype /\ x.condition = y.condition

\* C1 as stated: over all the calls of a run, no (item id, item type,
\* condition) triple is looked up twice.
C1_OneLookupPerTriple ==
    \A a, b \in CallIndexes : SameTriple(log[a], log[b]) => a = b

\* C1, amended: no triple is looked up twice by the main lookup of the loop,
\* and none twice by the fallback lookup; two lookups of one triple are the
\* main lookup of a new-condition key and the fallback of the used key of the
\* same item.
C1_OneMainLookupPerTriple ==
    \A a, b \in CallIndexes :
        (SameTriple(log[a], log[b]) /\ a # b) =>
            /\ log[a].fallback # log[b].fallback
            /\ log[a].condition = <<"N">>
            /\ log[a].by # log[b].by

\* two line items share a key, both were visited, and one lookup was made
C1_Witness ==
    /\ Len(items) = 2
    /\ SameItemKey(items[1], items[2])
    /\ idx = 3
    /\ Cardinality(CallIndexes) = 1

\* the position in log of the main lookup made for line item i
MainCallOf(i) == CHOOSE a \in CallIndexes : log[a].by = i /\ ~log[a].fallback

\* the further lookups made for line item i
FallbackCallsOf(i) == {a \in CallIndexes : log[a].by = i /\ log[a].fallback}

RespOk(resp) == resp.kind = "json" /\ resp.code = 200

\* the used lookup of result k succeeded without an average price
UsedWithoutAverage(k) ==
    LET main == log[MainCallOf(origin[k])]
    IN  /\ main.condition = <<"U">>
        /\ RespOk(main.response)
        /\ ~("avg_price" \in DOMAIN main.response.data
             /\ Len(main.response.data.avg_price) > 0)

FallbackPriced(resp) ==
    /\ RespOk(resp)
    /\ "avg_price" \in DOMAIN resp.data
    /\ Len(resp.data.avg_price) > 0

\* C2: a used lookup that succeeds without an average price is followed by
\* exactly one lookup of the same item and type with condition N; a priced
\* answer to it becomes the payload of the result, whose condition stays U;
\* otherwise the result keeps the used payload and stays successful.
C2_UsedFallsBackToNew ==
    \A k \in 1..Len(results) :
        UsedWithoutAverage(k) =>
            LET main == log[MainCallOf(origin[k])]
                fbs == FallbackCallsOf(origin[k])
            IN  /\ Cardinality(fbs) = 1
                /\ \A a \in fbs :
                     /\ a = MainCallOf(origin[k]) + 1
                     /\ log[a].itemid = main.itemid
                     /\ log[a].item_type = main.item_type
                     /\ log[a].condition = <<"N">>
                     /\ results[k].success
                     /\ results[k].condition = <<"U">>
                     /\ results[k].data = IF FallbackPriced(log[a].response)
                                          THEN log[a].response.data
                                          ELSE main.response.data

\* a used lookup without an average price was answered by a priced new lookup
C2_Witness ==
    \E k \in 1..Len(results) :
        /\ UsedWithoutAverage(k)
        /\ \E a \in FallbackCallsOf(origin[k]) : FallbackPriced(log[a].response)
        /\ results[k].data # log[MainCallOf(origin[k])].response.data

\* the line items before position n that pass the filter and are the first
\* of their (item id, item type, condition)
Eligible(n) ==
    {i \in 1..n :
        /\ ~(args.condition # None /\ items[i].condition # args.condition)
        /\ \A j \in 1..(i - 1) : ~SameItemKey(items[j], items[i])}

RECURSIVE Ascending(_)
\* the members of a set of numbers, in increasing order
Ascending(S) ==
    IF S = {} THEN <<>>
    ELSE LET m == CHOOSE x \in S : \A y \in S : x <= y
         IN  <<m>> \o Ascending(S \ {m})

\* C3: the results are those of the distinct keys of the line items that pass
\* the filter, one each, in the order of first occurrence; a failed lookup
\* gives a failed result and the loop goes on; with filter N no result is
\* that of a used line item.
C3_OneResultPerKeyInOrder ==
    /\ Len(results) = Len(origin)
    /\ origin = Ascending(Eligible(idx - 1))
    /\ \A k \in 1..Len(results) :
         /\ results[k].itemid = items[origin[k]].itemid
         /\ results[k].item_type = ITEM_TYPE_MAP[items[origin[k]].itemtype]
         /\ results[k].success = RespOk(log[MainCallOf(origin[k])].response)
         /\ (args.condition = <<"N">> => items[origin[k]].condition # <<"U">>)
    /\ (pc \in {"summary", "export"} \/ (pc = "done" /\ CredentialsPresent(creds)))
          => idx = Len(items) + 1

\* a failed lookup is followed by the result of a later key
C3_Witness ==
    /\ pc = "done"
    /\ Len(results) = 2
    /\ ~results[1].success
    /\ items[1].condition # items[2].condition

-----------------------------------------------------------------------------
(* Properties of main *)

\* C8: when a credential is missing or empty the run ends without a lookup,
\* a price summary or an export file; the pipeline only runs with all four.
C8_NoLookupWithoutCredentials ==
    /\ pc \in {"pipeline", "summary", "export"} =>
          \A k \in 1..4 : creds[k] # None /\ creds[k] # <<>>
    /\ (\E k \in 1..4 : creds[k] = None \/ creds[k] = <<>>) =>
          /\ CallIndexes = {}
          /\ log = <<>>
          /\ results = <<>>
          /\ ~summary.printed
          /\ files.names = <<>>

\* a run with an inventory and --export that found one credential empty and
\* the other three set
C8_Witness ==
    /\ pc = "done"
    /\ items # <<>>
    /\ args.export # None
    /\ Cardinality({k \in 1..4 : creds[k] = <<"k">>}) = 3
    /\ \E k \in 1..4 : creds[k] = <<>>

\* the first line item, in input order, that passes the filter and has the
\* key of line item i
FirstOfKey(i) ==
    CHOOSE j \in 1..Len(items) :
        /\ SameItemKey(items[j], items[i])
        /\ ~(args.condition # None /\ items[j].condition # args.condition)
        /\ \A h \in 1..(j - 1) :
              ~(SameItemKey(items[h], items[i])
                /\ ~(args.condition # None /\ items[h].condition # args.condition))

QuantityOf(r) == IF "quantity" \in DOMAIN r THEN r.quantity ELSE 1

XmlField(item, tag) == item[CHOOSE n \in 1..Len(item) : item[n][1] = tag][2]

RECURSIVE FirstQuantityTotal(_)
\* the estimated total when every result counts with the quantity of the
\* first line item of its key
FirstQuantityTotal(k) ==
    IF k = 0 THEN 0
    ELSE FirstQuantityTotal(k - 1)
         + (IF results[k].success /\ "avg_price" \in DOMAIN results[k].data
               /\ Len(results[k].data.avg_price) > 0
            THEN float(results[k].data.avg_price) * items[FirstOfKey(origin[k])].quantity
            ELSE 0)

\* C9: the quantity of a result is that of the first line item of its key
\* among those that pass the filter; later duplicates neither add to it nor
\* replace it, and the exports and the estimated total carry that quantity.
C9_FirstQuantityWins ==
    /\ \A k \in 1..Len(results) :
          QuantityOf(results[k]) = items[FirstOfKey(origin[k])].quantity
    /\ summary.printed => summary.total = FirstQuantityTotal(Len(results))
    /\ files.names # <<>> =>
          \A k \in 1..Len(results) :
             /\ XmlField(files.xml[k], "QTY") = str(items[FirstOfKey(origin[k])].quantity)
             /\ files.json[k].amount = items[FirstOfKey(origin[k])].quantity
             /\ QuantityOf(files.detailed[k]) = items[FirstOfKey(origin[k])].quantity

\* two line items of one key with different quantities were priced and exported
C9_Witness ==
    /\ pc = "done"
    /\ files.names # <<>>
    /\ Len(items) = 2
    /\ SameItemKey(items[1], items[2])
    /\ items[1].quantity # items[2].quantity
    /\ Len(results) = 1
    /\ summary.total > 0

\* C10: every exported result, successful or failed, carries the condition of
\* the line item that produced it, in the upload XML and in the simplified JSON.
C10_ExportedConditionIsItemCondition ==
    files.names # <<>> =>
        \A k \in 1..Len(results) :
           /\ XmlField(files.xml[k], "CONDITION") = items[origin[k]].condition
           /\ files.json[k].condition = items[origin[k]].condition

-----------------------------------------------------------------------------
(* Properties of the exporters *)

Priced(r) == r.success /\ "avg_price" \in DOMAIN r.data /\ Len(r.data.avg_price) > 0

\* the average price of a result, in ten-thousandths of a dollar
AvgValue(r) ==
    CASE r.data.avg_price = <<"1", "0", ".", "0", "0">> -> 100000
      [] r.data.avg_price = <<"2", "3", ".", "5", "0">> -> 235000
      [] r.data.avg_price = <<"1", ".", "9", "9", "0", "0">> -> 19900

\* a text of digits, a point and two decimals, as a number of cents
CentsOf(t) ==
    IF /\ Len(t) >= 4
       /\ t[Len(t) - 2] = "."
       /\ \A n \in (1..Len(t)) \ {Len(t) - 2} : t[n] \in Digits
    THEN int(SubSeq(t, 1, Len(t) - 3)) * 100 + int(SubSeq(t, Len(t) - 1, Len(t)))
    ELSE -1

\* C6: the upload document has one ITEM per result, in result order; its PRICE
\* is avg_price * (1 + markup/100) to the nearest cent for a successful result
\* with an average price ("11.50" for 10.00 at 15%) and "0.00" otherwise.
C6_UploadPrice ==
    files.names # <<>> =>
        /\ Len(files.xml) = Len(results)
        /\ \A k \in 1..Len(results) :
             LET price == XmlField(files.xml[k], "PRICE")
             IN  /\ XmlField(files.xml[k], "ITEMID") = results[k].itemid
                 /\ XmlField(files.xml[k], "QTY") = str(results[k].quantity)
                 /\ IF Priced(results[k])
                    THEN LET exact == AvgValue(results[k]) * (100 + args.markup)
                             shown == CentsOf(price) * 10000
                         IN  /\ CentsOf(price) >= 0
                             /\ shown - exact <= 5000
                             /\ exact - shown <= 5000
                             /\ (AvgValue(results[k]) = 100000 /\ args.markup = 15)
                                   => price = <<"1", "1", ".", "5", "0">>
                    ELSE price = <<"0", ".", "0", "0">>

\* an export at 15% of a result priced 10.00 and of a failed result
C6_Witness ==
    /\ files.names # <<>>
    /\ args.markup = 15
    /\ Len(results) = 2
    /\ Priced(results[1]) /\ AvgValue(results[1]) = 100000
    /\ ~results[2].success

\* C7: the simplified export has one entry per result, in result order; a
\* failed result gives average_price null and its error text, a successful one
\* with an average price gives the price as a number (23.5 for "23.50") and no
\* error field, a successful one without an average price gives null.
C7_SimplifiedEntries ==
    files.names # <<>> =>
        /\ Len(files.json) = Len(results)
        /\ \A k \in 1..Len(results) :
             LET entry == files.json[k]
             IN  /\ entry.item_id = results[k].itemid
                 /\ entry.item_type = results[k].item_type
                 /\ IF ~results[k].success
                    THEN /\ entry.average_price = None
                         /\ "error" \in DOMAIN entry
                         /\ entry.error = results[k].error
                    ELSE /\ "error" \notin DOMAIN entry
                         /\ entry.average_price =
                               IF Priced(results[k])
                               THEN <<"number", AvgValue(results[k])>>
                               ELSE None

\* a simplified export of a result priced "23.50" and of a failed result
C7_Witness ==
    /\ files.names # <<>>
    /\ Len(results) = 2
    /\ Priced(results[1]) /\ results[1].data.avg_price = <<"2", "3", ".", "5", "0">>
    /\ files.json[1].average_price = <<"number", 235000>>
    /\ ~results[2].success

-----------------------------------------------------------------------------
(* Properties of parse_xml_inventory *)

\* the entry has a type code among M, P, S and a non-empty identifier
ValidEntry(e) ==
    /\ e.ITEMTYPE \in {Elem(<<"M">>), Elem(<<"P">>), Elem(<<"S">>)}
    /\ Len(e.ITEMID) = 2
    /\ Len(e.ITEMID[2]) > 0

ValidPositions == {n \in 1..Len(doc.entries) : ValidEntry(doc.entries[n])}

\* the position in the document of the n-th valid entry
NthValid(n) == Ascending(ValidPositions)[n]

\* C4: a well-formed document gives one line item per entry with a supported
\* type code and a non-empty identifier, in document order, and none for the
\* other entries.
C4_OneLineItemPerValidEntry ==
    (pc = "parsed" /\ doc.status = "ok") =>
        /\ Len(items) = Cardinality(ValidPositions)
        /\ \A n \in 1..Len(items) :
             /\ Elem(items[n].itemid) = doc.entries[NthValid(n)].ITEMID
             /\ Elem(items[n].itemtype) = doc.entries[NthValid(n)].ITEMTYPE

\* the quantity text is missing or is not a number
QtyNotNumeric(e) ==
    \/ Len(e.QTY) < 2
    \/ \E n \in 1..Len(e.QTY[2]) : e.QTY[2][n] \notin Digits

\* C5: every valid entry is kept whatever its quantity and condition fields
\* are; its quantity is 1 when the QTY field is absent, without text or not
\* numeric, and its condition is U when the CONDITION field is absent.
C5_QuantityAndConditionDefaults ==
    (pc = "parsed" /\ doc.status = "ok") =>
        \A n \in 1..Cardinality(ValidPositions) :
            /\ n <= Len(items)
            /\ QtyNotNumeric(doc.entries[NthValid(n)]) => items[n].quantity = 1
            /\ doc.entries[NthValid(n)].CONDITION = Absent => items[n].condition = <<"U">>

-----------------------------------------------------------------------------
(* The throttle of get_prices_for_inventory *)

SleepIndexes == {a \in 1..Len(log) : log[a].op = "sleep"}

CallsOf(i) == {a \in CallIndexes : log[a].by = i}

FirstCallOf(i) == CHOOSE a \in CallsOf(i) : \A b \in CallsOf(i) : a <= b

LastCallOf(i) == CHOOSE a \in CallsOf(i) : \A b \in CallsOf(i) : b <= a

\* C11: the lookups follow each other in the order of the processed keys, one
\* pause is taken after the lookups of each processed key, so exactly one
\* lies between the last lookup of a key and the first lookup of the next, and
\* a line item skipped by the filter or the dedup check causes no pause.
C11_OnePauseAfterEachKey ==
    /\ \A a \in 1..Len(log) : \E k \in 1..Len(origin) : origin[k] = log[a].by
    /\ Cardinality(SleepIndexes) = Len(results)
    /\ \A k \in 1..Len(origin) :
          /\ CallsOf(origin[k]) # {}
          /\ Cardinality({a \in SleepIndexes : log[a].by = origin[k]}) = 1
          /\ \A a \in SleepIndexes :
                log[a].by = origin[k] => a = LastCallOf(origin[k]) + 1
          /\ \A a \in FirstCallOf(origin[k])..LastCallOf(origin[k]) : a \in CallsOf(origin[k])
    /\ \A k \in 1..(Len(origin) - 1) :
          /\ LastCallOf(origin[k]) < FirstCallOf(origin[k + 1])
          /\ Cardinality({a \in SleepIndexes :
                             /\ LastCallOf(origin[k]) < a
                             /\ a < FirstCallOf(origin[k + 1])}) = 1

\* a run over two keys, the first of them with a fallback lookup
C11_Witness ==
    /\ pc = "done"
    /\ Len(origin) = 2
    /\ Cardinality(CallsOf(origin[1])) = 2
    /\ Cardinality(SleepIndexes) = 2

-----------------------------------------------------------------------------
(* Quantities *)

\* C12: every line item the parser returns has a quantity of at least 1, and
\* so has every result of the pipeline and every exported entry.
C12_QuantityAtLeastOne ==
    /\ \A n \in 1..Len(items) : items[n].quantity >= 1
    /\ \A k \in 1..Len(results) : QuantityOf(results[k]) >= 1
    /\ files.names # <<>> =>
          \A k \in 1..Len(files.json) :
             /\ files.json[k].amount >= 1
             /\ XmlField(files.xml[k], "QTY") # <<"0">>

====
